---- MODULE Spec2Model ----
(***************************************************************************)
(* Drift detection of scripts/validate_aws_diff.py: the template parser,   *)
(* the AWS fetcher, the diff engine and the DriftValidator run started by  *)
(* main().                                                                 *)
(*                                                                         *)
(* Python values are tagged records (None, int, str) so that 256 and "256" *)
(* are different values that print alike.  A dict is a function whose      *)
(* DOMAIN is its key set; a list is a sequence.  The iteration order of a  *)
(* Python set of strings depends on the hash seed of the process, so every *)
(* loop over a set is modelled by the set of results of all its orders.    *)
(***************************************************************************)
EXTENDS Integers, Sequences, FiniteSets, TLC

VARIABLES
    calls,              \* number of validate() calls started on the validator
    args,               \* argparse result: [interactive, ci_mode]
    creds,              \* what the AWS session finds: "ok", "no_credentials", "probe_fails", "profile_not_found"
    template_file,      \* template.yaml on disk: [state, doc]
    pc,                 \* position of the run
    interactive,        \* DriftValidator.interactive
    network,            \* AWS interactions so far, in order
    template,           \* TemplateParser.template
    todo,               \* items of expected_functions the loop has not visited yet
    expected,           \* expected_config of the last comparison
    actual,             \* actual_config of the last comparison (None: not found)
    result,             \* (diffs, is_new_function) of the last comparison
    has_differences,    \* DriftValidator.has_differences
    report,             \* one entry per validated function, in order
    decision,           \* summary printed by validate(): "none", "blocked", "clear"
    prompts,            \* number of input() calls
    response,           \* what the operator typed, a sequence of characters
    success,            \* return value of validate(): "none" until it returns
    exit_code           \* process exit status, -1 while running

vars == <<calls, args, creds, template_file, pc, interactive, network, template, todo,
          expected, actual, result, has_differences, report, decision, prompts,
          response, success, exit_code>>

Range(f) == {f[x] : x \in DOMAIN f}

(***************************************************************************)
(* Bounds                                                                  *)
(***************************************************************************)
MaxLayers == 1          \* longest Layers list of a compared configuration
MaxResources == 2       \* most entries under Resources in a template
MaxRespLen == 3         \* longest operator response, in characters
MaxCalls == 2           \* most validate() calls made on one validator

(***************************************************************************)
(* Python values                                                           *)
(***************************************************************************)
None == [t |-> "none", i |-> 0, s |-> ""]
IntV(n) == [t |-> "int", i |-> n, s |-> ""]
StrV(x) == [t |-> "str", i |-> 0, s |-> x]

\* str(v), as an f-string renders it
PyStr(v) == IF v.t = "none" THEN "None" ELSE IF v.t = "int" THEN ToString(v.i) ELSE v.s

\* d.get(k, default)
Get(d, k, default) == IF k \in DOMAIN d THEN d[k] ELSE default

RECURSIVE JoinQuoted(_)
JoinQuoted(l) ==
    IF l = <<>> THEN ""
    ELSE IF Len(l) = 1 THEN "'" \o l[1] \o "'"
    ELSE "'" \o l[1] \o "', " \o JoinQuoted(Tail(l))

\* str(list_of_strings)
PyListStr(l) == "[" \o JoinQuoted(l) \o "]"

\* the orders in which a loop can visit the elements of a set
SetOrders(S) == {o \in [1..Cardinality(S) -> S] : Range(o) = S}

(***************************************************************************)
(* DiffEngine                                                              *)
(***************************************************************************)
\* variant: the Timeout pair left out of the list
ComparisonsWithoutTimeout == <<"Runtime", "Handler", "MemorySize">>

comparisons == <<"Runtime", "Handler", "MemorySize", "Timeout">>

ScalarLine(key, expected_val, actual_val) ==
    key \o ": Template=" \o PyStr(expected_val) \o ", AWS=" \o PyStr(actual_val)

RECURSIVE ScalarDiffs(_, _, _)
ScalarDiffs(exp, act, keys) ==
    IF keys = <<>> THEN <<>>
    ELSE LET key == Head(keys)
             expected_val == Get(exp, key, None)
             actual_val == Get(act, key, None)
         IN  (IF expected_val # actual_val
                 THEN <<ScalarLine(key, expected_val, actual_val)>>
                 ELSE <<>>)
             \o ScalarDiffs(exp, act, Tail(keys))

\* variant: the inequality test left out
DictLineUnconditional(exp, act, context, key) ==
    <<context \o "." \o key \o ": Template=" \o PyStr(Get(exp, key, None))
          \o ", AWS=" \o PyStr(Get(act, key, None))>>

DictLine(exp, act, context, key) ==
    LET expected_val == Get(exp, key, None)
        actual_val == Get(act, key, None)
    IN  IF expected_val # actual_val
        THEN IF expected_val = None
             THEN <<context \o "." \o key \o ": Not in template, AWS=" \o PyStr(actual_val)>>
             ELSE IF actual_val = None
             THEN <<context \o "." \o key \o ": Template=" \o PyStr(expected_val) \o ", missing in AWS">>
             ELSE <<context \o "." \o key \o ": Template=" \o PyStr(expected_val)
                        \o ", AWS=" \o PyStr(actual_val)>>
        ELSE <<>>

RECURSIVE DictDiffsInOrder(_, _, _, _)
DictDiffsInOrder(exp, act, context, order) ==
    IF order = <<>> THEN <<>>
    ELSE DictLine(exp, act, context, Head(order))
         \o DictDiffsInOrder(exp, act, context, Tail(order))

\* variant: all_keys holds the keys of actual only
CompareDictsActualKeysOnly(exp, act, context) ==
    {DictDiffsInOrder(exp, act, context, order) : order \in SetOrders(DOMAIN act)}

\* the diff lists _compare_dicts can return, one per iteration order of all_keys
compare_dicts(exp, act, context) ==
    {DictDiffsInOrder(exp, act, context, order) :
        order \in SetOrders(DOMAIN exp \cup DOMAIN act)}

\* variant: the layers are compared as lists, so a repeated layer is listed twice
LayerDiffsOfLists(exp, act) ==
    LET expected_layers == Get(exp, "Layers", <<>>)
        actual_layers == Get(act, "Layers", <<>>)
        missing_layers == SelectSeq(expected_layers, LAMBDA l : l \notin Range(actual_layers))
        extra_layers == SelectSeq(actual_layers, LAMBDA l : l \notin Range(expected_layers))
    IN  {(IF missing_layers # <<>> THEN <<"Missing layers: " \o PyListStr(missing_layers)>> ELSE <<>>)
         \o (IF extra_layers # <<>> THEN <<"Extra layers: " \o PyListStr(extra_layers)>> ELSE <<>>)}

\* variant: the layers only AWS has are not looked for
LayerDiffsMissingOnly(exp, act) ==
    LET missing_layers == Range(Get(exp, "Layers", <<>>)) \ Range(Get(act, "Layers", <<>>))
    IN  {IF missing_layers # {} THEN <<"Missing layers: " \o PyListStr(m)>> ELSE <<>> :
            m \in SetOrders(missing_layers)}

\* the entries the layer comparison can append
LayerDiffs(exp, act) ==
    LET expected_layers == Range(Get(exp, "Layers", <<>>))
        actual_layers == Range(Get(act, "Layers", <<>>))
        missing_layers == expected_layers \ actual_layers
        extra_layers == actual_layers \ expected_layers
    IN  IF expected_layers # actual_layers
        THEN {(IF missing_layers # {} THEN <<"Missing layers: " \o PyListStr(m)>> ELSE <<>>)
              \o (IF extra_layers # {} THEN <<"Extra layers: " \o PyListStr(e)>> ELSE <<>>) :
                 m \in SetOrders(missing_layers), e \in SetOrders(extra_layers)}
        ELSE {<<>>}

\* variant: the early return forgets to set is_new_function
CompareIsNewDropped(name, exp, act) ==
    IF act = None THEN {<<<<>>, FALSE>>}
    ELSE {<<ScalarDiffs(exp, act, comparisons) \o env_diffs \o layer_diffs, FALSE>> :
            env_diffs \in compare_dicts(Get(exp, "Environment", <<>>),
                                        Get(act, "Environment", <<>>), "Environment"),
            layer_diffs \in LayerDiffs(exp, act)}

\* the (diffs, is_new_function) pairs compare_lambda_function can return
compare_lambda_function(name, exp, act) ==
    IF act = None THEN {<<<<>>, TRUE>>}
    ELSE {<<ScalarDiffs(exp, act, comparisons) \o env_diffs \o layer_diffs, FALSE>> :
            env_diffs \in compare_dicts(Get(exp, "Environment", <<>>),
                                        Get(act, "Environment", <<>>), "Environment"),
            layer_diffs \in LayerDiffs(exp, act)}

(***************************************************************************)
(* TemplateParser                                                          *)
(***************************************************************************)
FunctionType == "AWS::Serverless::Function"
DefaultMemorySize == 128
DefaultTimeout == 3

\* variant: functions.setdefault(key, value), a key already present keeps its value
DictPutKeepFirst(d, key, value) ==
    IF \E n \in 1..Len(d) : d[n][1] = key THEN d ELSE Append(d, <<key, value>>)

\* functions[key] = value on a dict kept as a sequence of <<key, value>> in
\* insertion order: a key already present keeps its place and takes the new value
DictPut(d, key, value) ==
    IF \E n \in 1..Len(d) : d[n][1] = key
    THEN [n \in 1..Len(d) |-> IF d[n][1] = key THEN <<key, value>> ELSE d[n]]
    ELSE Append(d, <<key, value>>)

\* variant: props.get without the default values
FunctionConfigWithoutDefaults(props) ==
    [Runtime |-> Get(props, "Runtime", None),
     Handler |-> Get(props, "Handler", None),
     MemorySize |-> Get(props, "MemorySize", None),
     Timeout |-> Get(props, "Timeout", None),
     Environment |-> Get(Get(props, "Environment", <<>>), "Variables", <<>>),
     Layers |-> Get(props, "Layers", <<>>),
     Role |-> Get(props, "Role", None),
     Policies |-> Get(props, "Policies", <<>>)]

\* the configuration built from one resource's Properties
FunctionConfig(props) ==
    [Runtime |-> Get(props, "Runtime", None),
     Handler |-> Get(props, "Handler", None),
     MemorySize |-> Get(props, "MemorySize", IntV(DefaultMemorySize)),
     Timeout |-> Get(props, "Timeout", IntV(DefaultTimeout)),
     Environment |-> Get(Get(props, "Environment", <<>>), "Variables", <<>>),
     Layers |-> Get(props, "Layers", <<>>),
     Role |-> Get(props, "Role", None),
     Policies |-> Get(props, "Policies", <<>>)]

\* the loop of get_lambda_functions over resources.items(), from item n on
RECURSIVE CollectFunctions(_, _, _)
CollectFunctions(resources, n, functions) ==
    IF n > Len(resources) THEN functions
    ELSE LET logical_id == resources[n][1]
             resource == resources[n][2]
         IN  IF Get(resource, "Type", "") = FunctionType
             THEN LET props == Get(resource, "Properties", <<>>)
                  IN  CollectFunctions(resources, n + 1,
                          DictPut(functions,
                                  Get(props, "FunctionName", StrV(logical_id)).s,
                                  FunctionConfig(props)))
             ELSE CollectFunctions(resources, n + 1, functions)

\* TemplateParser.get_lambda_functions on a template that is a mapping
get_lambda_functions(tpl) ==
    CollectFunctions(Get(tpl, "Resources", <<>>), 1, <<>>)

(***************************************************************************)
(* AWSResourceFetcher                                                      *)
(***************************************************************************)
\* the dict get_lambda_function builds from response['Configuration']
FetchedConfig(config) ==
    [FunctionName |-> Get(config, "FunctionName", None),
     Runtime |-> Get(config, "Runtime", None),
     Handler |-> Get(config, "Handler", None),
     MemorySize |-> Get(config, "MemorySize", None),
     Timeout |-> Get(config, "Timeout", None),
     Environment |-> Get(Get(config, "Environment", <<>>), "Variables", <<>>),
     Layers |-> LET layers == Get(config, "Layers", <<>>)
                IN  [n \in 1..Len(layers) |-> layers[n].Arn],
     Role |-> Get(config, "Role", None),
     CodeInfo |-> [CodeSha256 |-> Get(config, "CodeSha256", None),
                   CodeSize |-> Get(config, "CodeSize", None),
                   LastModified |-> Get(config, "LastModified", None)]]

\* get_lambda_function by what the get_function call does: the call returns a
\* response, raises a ClientError with an error code, or raises something else
\* [raised |-> TRUE]: the exception leaves get_lambda_function
get_lambda_function(call) ==
    IF call.kind = "response"
    THEN [raised |-> FALSE, warning |-> FALSE, value |-> FetchedConfig(call.config)]
    ELSE IF call.kind = "ClientError"
    THEN IF call.code = "ResourceNotFoundException"
         THEN [raised |-> FALSE, warning |-> FALSE, value |-> None]
         ELSE [raised |-> FALSE, warning |-> TRUE, value |-> None]
    ELSE [raised |-> TRUE, warning |-> FALSE, value |-> None]

(***************************************************************************)
(* DriftValidator and main                                                 *)
(***************************************************************************)
\* variant: --ci-mode does not override --interactive
ModeIgnoringCi(a) == a.interactive

\* main: interactive = args.interactive and not args.ci_mode
DetermineMode(a) == a.interactive /\ ~a.ci_mode

\* variant: the is_new_function branch left out
ClassifyIgnoringNew(diffs, is_new_function) ==
    IF diffs # <<>> THEN "DRIFTED" ELSE "MATCH"

\* the branch _validate_lambda_function takes
Classify(diffs, is_new_function) ==
    IF is_new_function THEN "NEW"
    ELSE IF diffs # <<>> THEN "DRIFTED"
    ELSE "MATCH"

\* variant: a new function sets the flag too
FlagSetOnNew(flag, branch) == IF branch \in {"DRIFTED", "NEW"} THEN TRUE ELSE flag

\* has_differences after the branch
FlagAfter(flag, branch) == IF branch = "DRIFTED" THEN TRUE ELSE flag

Whitespace == {" "}

Lower(c) == IF c = "Y" THEN "y" ELSE IF c = "E" THEN "e" ELSE IF c = "S" THEN "s" ELSE c

\* str.lower()
PyLower(str) == [n \in 1..Len(str) |-> Lower(str[n])]

RECURSIVE LStrip(_)
LStrip(str) == IF str # <<>> /\ Head(str) \in Whitespace THEN LStrip(Tail(str)) ELSE str

RECURSIVE RStrip(_)
RStrip(str) ==
    IF str # <<>> /\ str[Len(str)] \in Whitespace
    THEN RStrip(SubSeq(str, 1, Len(str) - 1))
    ELSE str

\* str.strip()
PyStrip(str) == RStrip(LStrip(str))

\* variant: no lower()
AcceptsWithoutLower(str) == PyStrip(str) \in {<<"y">>, <<"y", "e", "s">>}

\* variant: no strip()
AcceptsUnstripped(str) == PyLower(str) \in {<<"y">>, <<"y", "e", "s">>}

\* input(...).strip().lower() in ['y', 'yes']
Accepts(str) == PyLower(PyStrip(str)) \in {<<"y">>, <<"y", "e", "s">>}

PyBool(b) == IF b THEN "True" ELSE "False"

Crash ==
    /\ pc' = "exited"
    /\ exit_code' = 1

\* main, up to the construction of the validator
Main ==
    /\ pc = "main"
    /\ interactive' = DetermineMode(args)
    /\ pc' = "fetcher_init"
    /\ UNCHANGED <<calls, args, creds, template_file, network, template, todo, expected,
                   actual, result, has_differences, report, decision, prompts,
                   response, success, exit_code>>

\* variant: the loop ends after its first item
StopAfterFirst(rest) == "summary"

\* the for loop of validate: on to the next item, or past the loop
AfterFunction(rest) == IF rest = <<>> THEN "summary" ELSE "loop"

\* variant: a failed probe does not end the run
ProbeFailureIgnored(c) == "parser_init"

\* where AWSResourceFetcher.__init__ leaves the run once the clients exist
AfterProbe(c) == IF c = "ok" THEN "parser_init" ELSE "exited"

\* AWSResourceFetcher.__init__
FetcherInit ==
    /\ pc = "fetcher_init"
    /\ IF creds = "profile_not_found"
       THEN /\ Crash
            /\ UNCHANGED network
       ELSE /\ network' = network \o <<<<"client", "lambda">>, <<"client", "iam">>,
                                       <<"client", "sts">>, <<"sts", "get_caller_identity">>>>
            /\ pc' = AfterProbe(creds)
            /\ exit_code' = IF AfterProbe(creds) = "exited" THEN 1 ELSE exit_code
    /\ UNCHANGED <<calls, args, creds, template_file, interactive, template, todo, expected,
                   actual, result, has_differences, report, decision, prompts,
                   response, success>>

\* TemplateParser.__init__ and _load_template
ParserInit ==
    /\ pc = "parser_init"
    /\ IF template_file.state \in {"missing", "unparsable"}
       THEN /\ pc' = "exited"
            /\ exit_code' = 1
            /\ UNCHANGED template
       ELSE /\ template' = template_file.doc
            /\ pc' = "validate"
            /\ UNCHANGED exit_code
    /\ UNCHANGED <<calls, args, creds, template_file, interactive, network, todo, expected,
                   actual, result, has_differences, report, decision, prompts,
                   response, success>>

\* variant: the loop walks the dict backwards
ItemsReversed(d) == [n \in 1..Len(d) |-> d[Len(d) + 1 - n]]

\* d.items(): the (key, value) pairs of a dict in insertion order
Items(d) == d

\* validate, up to the loop
ValidateStart ==
    /\ pc = "validate"
    /\ calls' = calls + 1
    /\ IF template.kind # "dict"
       THEN /\ Crash
            /\ UNCHANGED <<todo, decision, success>>
       ELSE LET expected_functions == get_lambda_functions(template.value)
            IN  IF expected_functions = <<>>
                THEN /\ success' = "True"
                     /\ decision' = "clear"
                     /\ pc' = "exit"
                     /\ UNCHANGED <<todo, exit_code>>
                ELSE /\ todo' = Items(expected_functions)
                     /\ pc' = "loop"
                     /\ UNCHANGED <<decision, success, exit_code>>
    /\ UNCHANGED <<args, creds, template_file, interactive, network, template, expected,
                   actual, result, has_differences, report, prompts, response>>

(***************************************************************************)
(* The inputs of a run                                                     *)
(***************************************************************************)
Layer1 == "arn:aws:lambda:us-east-1:123456789012:layer:test-layer:1"
Layer2 == "arn:aws:lambda:us-east-1:123456789012:layer:other-layer:2"
RoleArn == "arn:aws:iam::123456789012:role/lambda-role"

FullProperties ==
    [Runtime |-> StrV("python3.13"), Handler |-> StrV("app.lambda_handler"),
     MemorySize |-> IntV(256), Timeout |-> IntV(15),
     Environment |-> [Variables |-> [k \in {"STAGE"} |-> StrV("test")]],
     Layers |-> <<Layer1>>]

\* a function that takes the name of the first resource and every default
BareProperties ==
    [FunctionName |-> StrV("Res1"), Runtime |-> StrV("python3.13"),
     Handler |-> StrV("app.lambda_handler")]

ResourceKinds ==
    {[Type |-> FunctionType, Properties |-> FullProperties],
     [Type |-> FunctionType, Properties |-> BareProperties],
     [Type |-> "AWS::S3::Bucket", Properties |-> [BucketName |-> StrV("artifacts")]]}

LogicalId(n) == "Res" \o ToString(n)

\* the Resources mappings of at most MaxResources entries, in document order
ResourceMaps ==
    UNION {{[n \in 1..len |-> <<LogicalId(n), kinds[n]>>] : kinds \in [1..len -> ResourceKinds]} :
              len \in 0..MaxResources}

TemplateFiles ==
    {[state |-> "missing", doc |-> [kind |-> "none", value |-> <<>>]],
     [state |-> "unparsable", doc |-> [kind |-> "none", value |-> <<>>]],
     [state |-> "parsed", doc |-> [kind |-> "none", value |-> <<>>]],
     [state |-> "parsed", doc |-> [kind |-> "dict", value |-> <<>>]]}
    \cup {[state |-> "parsed", doc |-> [kind |-> "dict", value |-> [Resources |-> r]]] :
              r \in ResourceMaps}

\* Configuration records the Lambda API can hold for a function
LiveConfigurations(name) ==
    {[FunctionName |-> StrV(name), Runtime |-> StrV("python3.13"),
      Handler |-> StrV("app.lambda_handler"), MemorySize |-> IntV(256), Timeout |-> IntV(15),
      Environment |-> [Variables |-> [k \in {"STAGE"} |-> StrV("test")]],
      Layers |-> <<[Arn |-> Layer1, CodeSize |-> IntV(1024)]>>,
      Role |-> StrV(RoleArn), CodeSha256 |-> StrV("sha"), CodeSize |-> IntV(2048)],
     [FunctionName |-> StrV(name), Runtime |-> StrV("python3.13"),
      Handler |-> StrV("app.lambda_handler"), MemorySize |-> IntV(512), Timeout |-> IntV(15),
      Environment |-> [Variables |-> [k \in {"STAGE"} |-> StrV("prod")]],
      Layers |-> <<[Arn |-> Layer1, CodeSize |-> IntV(1024)]>>,
      Role |-> StrV(RoleArn), CodeSha256 |-> StrV("sha"), CodeSize |-> IntV(2048)],
     [FunctionName |-> StrV(name), Runtime |-> StrV("python3.13"),
      Handler |-> StrV("app.lambda_handler"), MemorySize |-> IntV(128), Timeout |-> IntV(3),
      Role |-> StrV(RoleArn), CodeSha256 |-> StrV("sha"), CodeSize |-> IntV(2048)]}

\* what lambda_client.get_function can do for a name
GetFunctionCalls(name) ==
    {[kind |-> "response", code |-> "", config |-> c] : c \in LiveConfigurations(name)}
    \cup {[kind |-> "ClientError", code |-> "ResourceNotFoundException", config |-> <<>>],
          [kind |-> "ClientError", code |-> "AccessDeniedException", config |-> <<>>],
          [kind |-> "EndpointConnectionError", code |-> "", config |-> <<>>]}

Characters == {"y", "Y", "e", "s", " "}

\* the lines the operator can type, newline removed
Responses == UNION {[1..len -> Characters] : len \in 0..MaxRespLen}

Init ==
    /\ calls = 0
    /\ args \in [interactive : BOOLEAN, ci_mode : BOOLEAN]
    /\ creds \in {"ok", "no_credentials", "probe_fails", "profile_not_found"}
    /\ template_file \in TemplateFiles
    /\ pc = "main"
    /\ interactive = FALSE
    /\ network = <<>>
    /\ template = [kind |-> "none", value |-> <<>>]
    /\ todo = <<>>
    /\ expected = None
    /\ actual = None
    /\ result = <<<<>>, FALSE>>
    /\ has_differences = FALSE
    /\ report = <<>>
    /\ decision = "none"
    /\ prompts = 0
    /\ response = <<>>
    /\ success = "none"
    /\ exit_code = -1

\* how a get_function call ended: with a response, or the error it raised
Outcome(call) == IF call.kind = "ClientError" THEN call.code ELSE call.kind

\* one iteration of the loop of validate: _validate_lambda_function
ValidateFunction ==
    /\ pc = "loop"
    /\ todo # <<>>
    /\ LET function_name == Head(todo)[1]
           expected_config == Head(todo)[2]
       IN  \E call \in GetFunctionCalls(function_name) :
             LET fetched == get_lambda_function(call)
             IN  /\ network' = Append(network, <<"lambda", "get_function", function_name,
                                               Outcome(call)>>)
                 /\ IF fetched.raised
                    THEN /\ Crash
                         /\ UNCHANGED <<todo, expected, actual, result, has_differences, report>>
                    ELSE \E r \in compare_lambda_function(function_name, expected_config,
                                                          fetched.value) :
                           LET branch == Classify(r[1], r[2])
                           IN  /\ expected' = expected_config
                               /\ actual' = fetched.value
                               /\ result' = r
                               /\ has_differences' = FlagAfter(has_differences, branch)
                               /\ report' = Append(report,
                                     [name |-> function_name, warning |-> fetched.warning,
                                      actual |-> fetched.value, diffs |-> r[1],
                                      is_new |-> r[2], status |-> branch,
                                      printed |-> IF branch = "DRIFTED" THEN r[1] ELSE <<>>])
                               /\ todo' = Tail(todo)
                               /\ pc' = AfterFunction(Tail(todo))
                               /\ UNCHANGED exit_code
    /\ UNCHANGED <<calls, args, creds, template_file, interactive, template, decision, prompts,
                   response, success>>

\* validate, after the loop
Summary ==
    /\ pc = "summary"
    /\ IF has_differences
       THEN /\ decision' = "blocked"
            /\ IF interactive
               THEN /\ prompts' = prompts + 1
                    /\ \/ \E typed \in Responses :
                            /\ response' = typed
                            /\ success' = PyBool(Accepts(typed))
                            /\ pc' = "exit"
                            /\ UNCHANGED exit_code
                       \/ /\ Crash      \* end of input: input() raises EOFError
                          /\ UNCHANGED <<response, success>>
               ELSE /\ success' = "False"
                    /\ pc' = "exit"
                    /\ UNCHANGED <<prompts, response, exit_code>>
       ELSE /\ decision' = "clear"
            /\ success' = "True"
            /\ pc' = "exit"
            /\ UNCHANGED <<prompts, response, exit_code>>
    /\ UNCHANGED <<calls, args, creds, template_file, interactive, network, template, todo,
                   expected, actual, result, has_differences, report>>

\* variant: main exits with 1 on success
ExitStatusInverted(returned) == IF returned = "True" THEN 1 ELSE 0

\* the exit status main ends with, given what validate returned
ExitStatus(returned) == IF returned = "True" THEN 0 ELSE 1

\* main, after validate returned
Exit ==
    /\ pc = "exit"
    /\ exit_code' = ExitStatus(success)
    /\ pc' = "exited"
    /\ UNCHANGED <<calls, args, creds, template_file, interactive, network, template, todo,
                   expected, actual, result, has_differences, report, decision, prompts,
                   response, success>>

Next ==
    \/ Main
    \/ FetcherInit
    \/ ParserInit
    \/ ValidateStart
    \/ ValidateFunction
    \/ Summary
    \/ Exit

Spec == Init /\ [][Next]_vars

(***************************************************************************)
(* compare_lambda_function on its own: the inputs are drawn from the       *)
(* configurations below and the function is applied once                   *)
(***************************************************************************)
Runtimes == {StrV("python3.13"), StrV("python3.12")}
Handlers == {StrV("app.lambda_handler"), None}
MemorySizes == {IntV(256), IntV(512)}
Timeouts == {IntV(3), IntV(15)}
EnvMaps ==
    {[k \in K |-> IF k = "DEBUG" THEN StrV("true") ELSE v] :
        K \in SUBSET {"STAGE", "DEBUG"}, v \in {StrV("test"), StrV("prod")}}
LayerLists == UNION {[1..len -> {Layer1, Layer2}] : len \in 0..MaxLayers}

CompareConfigs ==
    [Runtime : Runtimes, Handler : Handlers, MemorySize : MemorySizes, Timeout : Timeouts,
     Environment : EnvMaps, Layers : LayerLists, Role : {StrV(RoleArn)}, Policies : {<<>>}]

InitCompare ==
    /\ calls = 0
    /\ expected \in CompareConfigs
    /\ actual \in CompareConfigs \cup {None}
    /\ pc = "compare"
    /\ result = <<<<>>, FALSE>>
    /\ args = [interactive |-> FALSE, ci_mode |-> FALSE]
    /\ creds = "ok"
    /\ template_file = [state |-> "missing", doc |-> [kind |-> "none", value |-> <<>>]]
    /\ interactive = FALSE
    /\ network = <<>>
    /\ template = [kind |-> "none", value |-> <<>>]
    /\ todo = <<>>
    /\ has_differences = FALSE
    /\ report = <<>>
    /\ decision = "none"
    /\ prompts = 0
    /\ response = <<>>
    /\ success = "none"
    /\ exit_code = -1

\* diff_engine.compare_lambda_function('test', expected, actual)
Compare ==
    /\ pc = "compare"
    /\ \E r \in compare_lambda_function("test", expected, actual) : result' = r
    /\ pc' = "compared"
    /\ UNCHANGED <<calls, args, creds, template_file, interactive, network, template, todo,
                   expected, actual, has_differences, report, decision, prompts,
                   response, success, exit_code>>

NextCompare == Compare

SpecCompare == InitCompare /\ [][NextCompare]_vars

(***************************************************************************)
(* A caller that keeps the validator and calls validate() again            *)
(* (SpecReuse); report, network, prompts and response then describe the    *)
(* call under way                                                          *)
(***************************************************************************)
InitReuse ==
    /\ Init
    /\ creds = "ok"
    /\ ~args.interactive
    /\ template_file.state = "parsed"
    /\ template_file.doc.kind = "dict"

\* validate() returned and is called once more on the same DriftValidator
ValidateAgain ==
    /\ pc = "exit"
    /\ calls < MaxCalls
    /\ pc' = "validate"
    /\ network' = <<>>
    /\ report' = <<>>
    /\ decision' = "none"
    /\ prompts' = 0
    /\ response' = <<>>
    /\ success' = "none"
    /\ UNCHANGED <<calls, args, creds, template_file, interactive, template, todo,
                   expected, actual, result, has_differences, exit_code>>

NextReuse == Next \/ ValidateAgain

SpecReuse == InitReuse /\ [][NextReuse]_vars

(***************************************************************************)
(* TemplateParser.get_lambda_functions alone (SpecParse)                   *)
(***************************************************************************)
\* Properties with every key the parser reads
DeclaredProperties ==
    [Runtime |-> StrV("python3.13"), Handler |-> StrV("app.lambda_handler"),
     MemorySize |-> IntV(256), Timeout |-> IntV(15),
     Environment |-> [Variables |-> [k \in {"STAGE"} |-> StrV("test")]],
     Layers |-> <<Layer1>>, Role |-> StrV(RoleArn),
     Policies |-> <<"AWSLambdaBasicExecutionRole">>]

\* Properties with the two keys that have no default
MinimalProperties ==
    [Runtime |-> StrV("python3.13"), Handler |-> StrV("app.lambda_handler")]

\* Properties with an Environment that has no Variables
PartialProperties ==
    [Runtime |-> StrV("nodejs20.x"), MemorySize |-> IntV(512),
     Environment |-> [Description |-> StrV("none")]]

PropertyProfiles == {DeclaredProperties, MinimalProperties, PartialProperties}
FunctionNames == {"fn-a", "Res1"}
ResourceTypes == {FunctionType, "AWS::Lambda::Function", "AWS::S3::Bucket"}

WithFunctionName(props, name) ==
    [k \in DOMAIN props \cup {"FunctionName"} |->
        IF k = "FunctionName" THEN StrV(name) ELSE props[k]]

ParsedResourceKinds ==
    {[Type |-> t, Properties |-> p] : t \in ResourceTypes, p \in PropertyProfiles}
    \cup {[Type |-> t, Properties |-> WithFunctionName(p, name)] :
              t \in ResourceTypes, p \in PropertyProfiles, name \in FunctionNames}
    \cup {[Type |-> t] : t \in ResourceTypes}

\* a Resources mapping with the given entries, in document order
ParsedResources(kinds) == [n \in 1..Len(kinds) |-> <<LogicalId(n), kinds[n]>>]

InitParse ==
    /\ \E len \in 0..MaxResources : \E kinds \in [1..len -> ParsedResourceKinds] :
          template = [kind |-> "dict", value |-> [Resources |-> ParsedResources(kinds)]]
    /\ pc = "parse"
    /\ todo = <<>>
    /\ calls = 0
    /\ expected = None
    /\ actual = None
    /\ result = <<<<>>, FALSE>>
    /\ args = [interactive |-> FALSE, ci_mode |-> FALSE]
    /\ creds = "ok"
    /\ template_file = [state |-> "parsed", doc |-> template]
    /\ interactive = FALSE
    /\ network = <<>>
    /\ has_differences = FALSE
    /\ report = <<>>
    /\ decision = "none"
    /\ prompts = 0
    /\ response = <<>>
    /\ success = "none"
    /\ exit_code = -1

\* functions = parser.get_lambda_functions()
Parse ==
    /\ pc = "parse"
    /\ todo' = Items(get_lambda_functions(template.value))
    /\ pc' = "parsed"
    /\ UNCHANGED <<calls, args, creds, template_file, interactive, network, template,
                   expected, actual, result, has_differences, report, decision,
                   prompts, response, success, exit_code>>

NextParse == Parse

SpecParse == InitParse /\ [][NextParse]_vars

(***************************************************************************)
(* Properties of the run (Spec)                                            *)
(***************************************************************************)
Statuses == {report[n].status : n \in 1..Len(report)}
ReportedNames == [n \in 1..Len(report) |-> report[n].name]
FetchCalls == SelectSeq(network, LAMBDA e : e[1] = "lambda")
FetchedNames == [n \in 1..Len(FetchCalls) |-> FetchCalls[n][3]]
NonInteractive == args.ci_mode \/ ~args.interactive

\* C1: every classified function is NEW iff the fetcher returned None, MATCH iff
\* it returned a configuration and the diff list is empty, DRIFTED iff it
\* returned a configuration and the diff list is not empty; one of the three holds
C1_OutcomeByActualAndDiffs ==
    \A n \in 1..Len(report) :
        LET r == report[n]
        IN  /\ r.status \in {"NEW", "MATCH", "DRIFTED"}
            /\ (r.status = "NEW") <=> (r.actual = None)
            /\ (r.status = "MATCH") <=> (r.actual # None /\ r.diffs = <<>>)
            /\ (r.status = "DRIFTED") <=> (r.actual # None /\ r.diffs # <<>>)

C1_Witness ==
    /\ Len(report) = 2
    /\ report[1].status = "DRIFTED"
    /\ report[2].status = "NEW"

\* C2: once all functions are classified, the summary of validate() is "blocked"
\* iff some function was classified DRIFTED; NEW and MATCH never set the flag
C2_BlockedIffDrifted ==
    /\ has_differences <=> ("DRIFTED" \in Statuses)
    /\ decision # "none" => ((decision = "blocked") <=> ("DRIFTED" \in Statuses))

C2_Witness ==
    /\ decision = "clear"
    /\ Statuses = {"NEW", "MATCH"}

\* C3: without --interactive, or with --ci-mode, no prompt is issued and a run
\* with a DRIFTED function fails with exit code 1
C3_NonInteractiveFails ==
    NonInteractive =>
        /\ prompts = 0
        /\ ("DRIFTED" \in Statuses /\ success # "none") => success = "False"
        /\ ("DRIFTED" \in Statuses /\ pc = "exited") => exit_code = 1

C3_Witness ==
    /\ args.ci_mode
    /\ args.interactive
    /\ "DRIFTED" \in Statuses
    /\ success = "False"
    /\ exit_code = 1

IsYes(str) ==
    \/ Len(str) = 1 /\ str[1] \in {"y", "Y"}
    \/ Len(str) = 3 /\ str[1] \in {"y", "Y"} /\ str[2] \in {"e", "E"} /\ str[3] \in {"s", "S"}

IsPaddedYes(str) ==
    \E from \in 1..Len(str) : \E to \in from..Len(str) :
        /\ IsYes(SubSeq(str, from, to))
        /\ \A n \in 1..Len(str) : (n < from \/ n > to) => str[n] = " "

Prompted == interactive /\ decision = "blocked" /\ prompts = 1

\* C4 as stated: in interactive mode a blocked run succeeds iff the response is
\* "y" or "yes" in any letter case, and fails for every other response
C4_AsStated ==
    (Prompted /\ success # "none") => ((success = "True") <=> IsYes(response))

\* C4, amended: in interactive mode a blocked run succeeds (exit code 0) iff the
\* response, leading and trailing whitespace removed, is "y" or "yes" in any
\* letter case; every other response, the empty one and the end of input too,
\* leaves it failed (exit code 1)
C4_AcceptsPaddedYes ==
    Prompted =>
        /\ success # "none" => ((success = "True") <=> IsPaddedYes(response))
        /\ pc = "exited" =>
              exit_code = IF success # "none" /\ IsPaddedYes(response) THEN 0 ELSE 1

C4_Witness ==
    /\ Prompted
    /\ response = <<" ", "Y">>
    /\ success = "True"
    /\ exit_code = 0

TemplateUnusable ==
    \/ template_file.state \in {"missing", "unparsable"}
    \/ template_file.doc.kind # "dict"

\* C5: a run whose template is missing or is no mapping creates no client, sends
\* no identity probe and fetches no function
C5_NoNetworkOnBadTemplate == TemplateUnusable => network = <<>>

\* C6: with credentials missing or the identity probe failing, the run ends with
\* exit code 1 and no function is fetched, compared or classified
C6_AuthFailureAbortsFirst ==
    creds # "ok" =>
        /\ pc \in {"main", "fetcher_init", "exited"}
        /\ FetchCalls = <<>>
        /\ expected = None
        /\ report = <<>>
        /\ decision = "none"
        /\ pc = "exited" => exit_code = 1

C6_Witness ==
    /\ creds = "probe_fails"
    /\ network # <<>>
    /\ pc = "exited"
    /\ exit_code = 1

\* C7: when the summary is printed, the prompt read or validate() returns, every
\* function of the template has been fetched and reported, in order; the prompt
\* is read at most once
C7_AllReportedBeforeDecision ==
    /\ prompts <= 1
    /\ (decision # "none" \/ prompts > 0 \/ success # "none") =>
          /\ template.kind = "dict"
          /\ todo = <<>>
          /\ LET fns == get_lambda_functions(template.value)
             IN  /\ ReportedNames = [n \in 1..Len(fns) |-> fns[n][1]]
                 /\ FetchedNames = ReportedNames

C7_Witness ==
    /\ prompts = 1
    /\ Len(report) = 2
    /\ report[1].status = "DRIFTED"
    /\ report[2].status = "MATCH"

(***************************************************************************)
(* Properties of compare_lambda_function (SpecCompare)                     *)
(***************************************************************************)
\* C8: with actual None the result is the empty list and is_new_function = True
C8_NotFoundIsNew ==
    (pc = "compared" /\ actual = None) => result = <<<<>>, TRUE>>

C8_Witness ==
    /\ pc = "compared"
    /\ actual = None
    /\ expected.Layers # <<>>
    /\ expected.Environment # <<>>

\* C9: a configuration compared with itself gives the empty list and
\* is_new_function = False
C9_SelfCompareEmpty ==
    (pc = "compared" /\ actual = expected) => result = <<<<>>, FALSE>>

C9_Witness ==
    /\ pc = "compared"
    /\ actual = expected
    /\ DOMAIN expected.Environment = {"STAGE", "DEBUG"}
    /\ expected.Layers # <<>>

ScalarFields == {"Runtime", "Handler", "MemorySize", "Timeout"}
ScalarValues == Runtimes \cup Handlers \cup MemorySizes \cup Timeouts

\* for each scalar field, every line "<field>: Template=<a>, AWS=<b>"
LinesOfField ==
    [f \in ScalarFields |->
        {f \o ": Template=" \o PyStr(a) \o ", AWS=" \o PyStr(b) : a, b \in ScalarValues}]

EntriesOfField(f) == SelectSeq(result[1], LAMBDA d : d \in LinesOfField[f])

\* C10: with actual present, each scalar field has exactly one entry
\* "<field>: Template=<expected>, AWS=<actual>" when its values differ and none
\* when they are equal; configurations differing only in MemorySize give one entry
C10_OneEntryPerUnequalScalar ==
    (pc = "compared" /\ actual # None) =>
        /\ \A f \in ScalarFields :
              EntriesOfField(f) =
                  IF expected[f] # actual[f]
                  THEN <<f \o ": Template=" \o PyStr(expected[f]) \o ", AWS="
                           \o PyStr(actual[f])>>
                  ELSE <<>>
        /\ (/\ expected.MemorySize # actual.MemorySize
            /\ [expected EXCEPT !.MemorySize = actual.MemorySize] = actual)
           => Len(result[1]) = 1

C10_Witness ==
    /\ pc = "compared"
    /\ actual # None
    /\ expected.MemorySize = IntV(256)
    /\ [expected EXCEPT !.MemorySize = IntV(512)] = actual
    /\ result[1] = <<"MemorySize: Template=256, AWS=512">>

EnvKeys == {"STAGE", "DEBUG"}
EnvValues == UNION {Range(m) : m \in EnvMaps}

MissingInAwsLine(k, v) == "Environment." \o k \o ": Template=" \o PyStr(v) \o ", missing in AWS"
NotInTemplateLine(k, v) == "Environment." \o k \o ": Not in template, AWS=" \o PyStr(v)
MismatchLine(k, v, w) == "Environment." \o k \o ": Template=" \o PyStr(v) \o ", AWS=" \o PyStr(w)

\* for each key, every line that starts with "Environment.<key>: "
LinesOfKey ==
    [k \in EnvKeys |->
        {MissingInAwsLine(k, v) : v \in EnvValues}
        \cup {NotInTemplateLine(k, v) : v \in EnvValues}
        \cup {MismatchLine(k, v, w) : v, w \in EnvValues}]

EntriesOfKey(k) == SelectSeq(result[1], LAMBDA d : d \in LinesOfKey[k])

\* C11: with actual present, a key of either environment map has exactly one
\* entry when its values differ (missing in AWS when only the template has it,
\* not in template when only AWS has it, both values when both have it with
\* unequal values) and none when both maps hold the same value
C11_OneEntryPerDifferingKey ==
    (pc = "compared" /\ actual # None) =>
        \A k \in EnvKeys :
            LET e == expected.Environment
                a == actual.Environment
            IN  EntriesOfKey(k) =
                    IF k \in DOMAIN e /\ k \notin DOMAIN a THEN <<MissingInAwsLine(k, e[k])>>
                    ELSE IF k \notin DOMAIN e /\ k \in DOMAIN a THEN <<NotInTemplateLine(k, a[k])>>
                    ELSE IF k \in DOMAIN e /\ k \in DOMAIN a /\ e[k] # a[k]
                    THEN <<MismatchLine(k, e[k], a[k])>>
                    ELSE <<>>

C11_Witness ==
    /\ pc = "compared"
    /\ actual # None
    /\ expected.Environment = [k \in {"STAGE"} |-> StrV("test")]
    /\ actual.Environment = [k \in {"STAGE", "DEBUG"} |-> IF k = "STAGE" THEN StrV("prod") ELSE StrV("true")]
    /\ [actual EXCEPT !.Environment = expected.Environment] = expected
    /\ Len(result[1]) = 2

(***************************************************************************)
(* Two calls of compare_lambda_function, one after the other (SpecPair):   *)
(* todo holds the (expected, actual) arguments of the calls still to make  *)
(***************************************************************************)
MaxLayerList == 2       \* longest Layers list of the two-call inputs

BaseConfig == FunctionConfig(FullProperties)

LayerListsOfPair == UNION {[1..len -> {Layer1, Layer2}] : len \in 0..MaxLayerList}

\* two calls whose arguments differ in their Layers lists only
LayerPair(a1, b1, a2, b2) ==
    <<<<[BaseConfig EXCEPT !.Layers = a1], [BaseConfig EXCEPT !.Layers = b1]>>,
      <<[BaseConfig EXCEPT !.Layers = a2], [BaseConfig EXCEPT !.Layers = b2]>>>>

Roles == {None, StrV(RoleArn), StrV("arn:aws:iam::123456789012:role/other-role")}
PolicyLists == {<<>>, <<"AWSLambdaBasicExecutionRole">>}
DriftedEnvironment ==
    [k \in {"STAGE", "DEBUG"} |-> IF k = "STAGE" THEN StrV("prod") ELSE StrV("true")]

\* two calls whose arguments differ in Role and Policies only
RolePair(r1, p1, r2, r3, p3, r4, m, e) ==
    <<<<[BaseConfig EXCEPT !.Role = r1, !.Policies = p1],
        [BaseConfig EXCEPT !.Role = r2, !.MemorySize = m, !.Environment = e]>>,
      <<[BaseConfig EXCEPT !.Role = r3, !.Policies = p3],
        [BaseConfig EXCEPT !.Role = r4, !.MemorySize = m, !.Environment = e]>>>>

InitPair ==
    /\ calls = 0
    /\ \/ \E a1 \in LayerListsOfPair, b1 \in LayerListsOfPair,
             a2 \in LayerListsOfPair, b2 \in LayerListsOfPair :
               todo = LayerPair(a1, b1, a2, b2)
       \/ \E r1 \in Roles, r3 \in Roles, p1 \in PolicyLists, p3 \in PolicyLists,
             r2 \in Roles \ {None}, r4 \in Roles \ {None}, m \in MemorySizes,
             e \in {BaseConfig.Environment, DriftedEnvironment} :
               todo = RolePair(r1, p1, r2, r3, p3, r4, m, e)
    /\ pc = "pair"
    /\ expected = None
    /\ actual = None
    /\ result = <<<<>>, FALSE>>
    /\ args = [interactive |-> FALSE, ci_mode |-> FALSE]
    /\ creds = "ok"
    /\ template_file = [state |-> "missing", doc |-> [kind |-> "none", value |-> <<>>]]
    /\ interactive = FALSE
    /\ network = <<>>
    /\ template = [kind |-> "none", value |-> <<>>]
    /\ has_differences = FALSE
    /\ report = <<>>
    /\ decision = "none"
    /\ prompts = 0
    /\ response = <<>>
    /\ success = "none"
    /\ exit_code = -1

\* the next call: diff_engine.compare_lambda_function('test', expected, actual)
ComparePair ==
    /\ pc = "pair"
    /\ todo # <<>>
    /\ \E r \in compare_lambda_function("test", Head(todo)[1], Head(todo)[2]) :
          /\ expected' = Head(todo)[1]
          /\ actual' = Head(todo)[2]
          /\ result' = r
          /\ report' = Append(report,
                [expected |-> Head(todo)[1], actual |-> Head(todo)[2],
                 diffs |-> r[1], is_new |-> r[2], status |-> Classify(r[1], r[2])])
    /\ todo' = Tail(todo)
    /\ UNCHANGED <<calls, args, creds, template_file, pc, interactive, network, template,
                   has_differences, decision, prompts, response, success, exit_code>>

NextPair == ComparePair

SpecPair == InitPair /\ [][NextPair]_vars

(***************************************************************************)
(* Claims about the layer comparison and about Role and Policies           *)
(***************************************************************************)
LayerOrders == UNION {SetOrders(S) : S \in (SUBSET {Layer1, Layer2}) \ {{}}}
MissingLayersLine(o) == "Missing layers: " \o PyListStr(o)
ExtraLayersLine(o) == "Extra layers: " \o PyListStr(o)
LayerLines == {MissingLayersLine(o) : o \in LayerOrders} \cup {ExtraLayersLine(o) : o \in LayerOrders}
LayerEntries(diffs) == SelectSeq(diffs, LAMBDA d : d \in LayerLines)
MissingLayers(e) == Range(e.expected.Layers) \ Range(e.actual.Layers)
ExtraLayers(e) == Range(e.actual.Layers) \ Range(e.expected.Layers)
BothCompared == pc = "pair" /\ Len(report) = 2

\* C12: the layer entries of a comparison are determined by the two set
\* differences alone: two comparisons with the same layers missing and the
\* same layers extra report the same layer entries
C12_LayerEntriesBySetDifferences ==
    (/\ BothCompared
     /\ MissingLayers(report[1]) = MissingLayers(report[2])
     /\ ExtraLayers(report[1]) = ExtraLayers(report[2]))
    => LayerEntries(report[1].diffs) = LayerEntries(report[2].diffs)

\* C13: a comparison reports no layer entry when the two layer sets are equal
\* and otherwise at most two: one listing every layer missing from the
\* function, then one listing every layer missing from the template, each
\* present exactly when its set is non-empty
C13_AggregateLayerEntries ==
    \A i \in 1..Len(report) :
        \E m \in SetOrders(MissingLayers(report[i])), x \in SetOrders(ExtraLayers(report[i])) :
            LayerEntries(report[i].diffs) =
                (IF m # <<>> THEN <<MissingLayersLine(m)>> ELSE <<>>)
                \o (IF x # <<>> THEN <<ExtraLayersLine(x)>> ELSE <<>>)

C13_Witness ==
    /\ Len(report) = 2
    /\ report[1].expected.Layers = <<Layer1, Layer1>>
    /\ report[1].actual.Layers = <<Layer2>>
    /\ Len(LayerEntries(report[1].diffs)) = 2
    /\ Range(report[2].expected.Layers) = Range(report[2].actual.Layers)
    /\ report[2].expected.Layers # report[2].actual.Layers
    /\ report[2].diffs = <<>>

WithoutRole(c) == [c EXCEPT !.Role = None, !.Policies = <<>>]
SameButRole ==
    /\ BothCompared
    /\ WithoutRole(report[1].expected) = WithoutRole(report[2].expected)
    /\ WithoutRole(report[1].actual) = WithoutRole(report[2].actual)

\* the comparison does not read Role or Policies: each result of one call is
\* a possible result of the other, and the outcomes are equal
RoleAndPoliciesNotRead ==
    SameButRole =>
        /\ <<report[1].diffs, report[1].is_new>>
               \in compare_lambda_function("test", report[2].expected, report[2].actual)
        /\ <<report[2].diffs, report[2].is_new>>
               \in compare_lambda_function("test", report[1].expected, report[1].actual)
        /\ report[1].status = report[2].status

\* C14: two comparisons whose arguments agree on every field except Role and
\* Policies produce the same difference list and the same outcome
C14_SameDiffListWhateverTheRole ==
    SameButRole =>
        /\ report[1].diffs = report[2].diffs
        /\ report[1].status = report[2].status

\* C18: the rendered report is reproducible: two comparisons of the same
\* arguments report the same entries in the same order
C18_ReportReproducible ==
    (/\ BothCompared
     /\ report[1].expected = report[2].expected
     /\ report[1].actual = report[2].actual)
    => report[1].diffs = report[2].diffs

(***************************************************************************)
(* Claims about the end of the run (Spec)                                  *)
(***************************************************************************)
FatalStart == creds # "ok" \/ template_file.state \in {"missing", "unparsable"}
Overridden == prompts = 1 /\ IsPaddedYes(response)
FinalClear == decision # "none" /\ ("DRIFTED" \notin Statuses \/ Overridden)

\* C15: a run ends with exit code 0 exactly when its final result is clear (no
\* function DRIFTED, or the operator overrode the drift); it ends with exit
\* code 1 when the result is blocked and when the credentials or the template
\* made the start fail
C15_ExitCodeByFinalResult ==
    pc = "exited" =>
        /\ exit_code \in {0, 1}
        /\ (exit_code = 0) <=> FinalClear
        /\ FatalStart => exit_code = 1

C15_Witness ==
    /\ pc = "exited"
    /\ "DRIFTED" \in Statuses
    /\ Overridden
    /\ exit_code = 0

AuthFailures == {"AccessDeniedException"}
NotFailures == {"response", "ResourceNotFoundException"}
OtherFailure(n) == FetchCalls[n][4] \notin NotFailures \cup AuthFailures

\* C16: every get_function failure other than an authentication failure is
\* logged as a warning and read as "not found": the function is classified NEW
\* and the run goes on to the next function or to the summary
C16_FetchFailureIsWarnedNew ==
    \A n \in 1..Len(FetchCalls) :
        OtherFailure(n) =>
            /\ n <= Len(report)
            /\ report[n].warning
            /\ report[n].status = "NEW"

ParserOrder ==
    LET fns == get_lambda_functions(template.value)
    IN  [n \in 1..Len(fns) |-> fns[n][1]]

\* C17: functions are validated one at a time in the order of the parser's
\* result: the reported names and the fetched names are always a prefix of that
\* order, a function is fetched only when every function before it has been
\* reported, and the summary comes after the last of them
C17_OneAtATimeInParserOrder ==
    LET order == ParserOrder
        fetched == FetchedNames
    IN  /\ Len(report) <= Len(order)
        /\ Len(fetched) <= Len(order)
        /\ ReportedNames = SubSeq(order, 1, Len(report))
        /\ fetched = SubSeq(order, 1, Len(fetched))
        /\ Len(fetched) \in {Len(report), Len(report) + 1}
        /\ Len(fetched) = Len(report) + 1 => pc = "exited"
        /\ decision # "none" => ReportedNames = order

C17_Witness ==
    /\ pc = "summary"
    /\ ReportedNames = <<"Res1", "Res2">>
    /\ FetchedNames = <<"Res1", "Res2">>
    /\ report[1].status = "DRIFTED"

(***************************************************************************)
(* Claims about repeated validate() calls (SpecReuse)                      *)
(***************************************************************************)
\* C19: the result of a validate() call depends on that call alone: a call in
\* which no function is DRIFTED returns True ("clear"), whatever an earlier
\* call on the same validator found
C19_ResultFreshPerCall ==
    (success # "none" /\ "DRIFTED" \notin Statuses) => success = "True"

(***************************************************************************)
(* Claims about get_lambda_functions (SpecParse)                           *)
(***************************************************************************)
Declared(n) == template.value.Resources[n][2]
IsFunction(n) == "Type" \in DOMAIN Declared(n) /\ Declared(n).Type = "AWS::Serverless::Function"
FunctionResources == {n \in 1..Len(template.value.Resources) : IsFunction(n)}
PropertiesOf(n) == IF "Properties" \in DOMAIN Declared(n) THEN Declared(n).Properties ELSE <<>>
CanonicalName(n) ==
    IF "FunctionName" \in DOMAIN PropertiesOf(n)
    THEN PropertiesOf(n).FunctionName.s
    ELSE template.value.Resources[n][1]
DeclaredOr(n, field, default) ==
    IF field \in DOMAIN PropertiesOf(n) THEN PropertiesOf(n)[field] ELSE default
DeclaredVariables(n) ==
    IF "Environment" \in DOMAIN PropertiesOf(n)
       /\ "Variables" \in DOMAIN PropertiesOf(n).Environment
    THEN PropertiesOf(n).Environment.Variables
    ELSE <<>>
LastNamed(name) ==
    CHOOSE n \in FunctionResources :
        /\ CanonicalName(n) = name
        /\ \A m \in FunctionResources : CanonicalName(m) = name => m <= n
ParsedNames == {todo[i][1] : i \in 1..Len(todo)}

\* C20: get_lambda_functions has an entry for exactly the resources whose Type
\* is AWS::Serverless::Function, keyed by FunctionName or, without one, by the
\* resource's identifier; the entry carries the declared Runtime, Handler,
\* MemorySize, Timeout, Environment variables, Layers, Role and Policies, with
\* MemorySize 128, Timeout 3, no variables and no layers where none is declared
C20_EntriesOfFunctionResources ==
    pc = "parsed" =>
        /\ ParsedNames = {CanonicalName(n) : n \in FunctionResources}
        /\ \A i, j \in 1..Len(todo) : todo[i][1] = todo[j][1] => i = j
        /\ \A i \in 1..Len(todo) :
              LET n == LastNamed(todo[i][1])
              IN  todo[i][2] =
                      [Runtime |-> DeclaredOr(n, "Runtime", None),
                       Handler |-> DeclaredOr(n, "Handler", None),
                       MemorySize |-> DeclaredOr(n, "MemorySize", IntV(128)),
                       Timeout |-> DeclaredOr(n, "Timeout", IntV(3)),
                       Environment |-> DeclaredVariables(n),
                       Layers |-> DeclaredOr(n, "Layers", <<>>),
                       Role |-> DeclaredOr(n, "Role", None),
                       Policies |-> DeclaredOr(n, "Policies", <<>>)]
        /\ (\A m, n \in FunctionResources : CanonicalName(m) = CanonicalName(n) => m = n)
              => Len(todo) = Cardinality(FunctionResources)

C20_Witness ==
    /\ pc = "parsed"
    /\ Len(template.value.Resources) = 2
    /\ Declared(1).Type = "AWS::Lambda::Function"
    /\ "FunctionName" \notin DOMAIN PropertiesOf(2)
    /\ Len(todo) = 1
    /\ todo[1][1] = "Res2"
    /\ todo[1][2].MemorySize = IntV(128)
    /\ todo[1][2].Timeout = IntV(3)
    /\ todo[1][2].Layers = <<>>

(***************************************************************************)
(* Soundness and completeness of the comparison (SpecCompare, SpecPair)    *)
(***************************************************************************)
Compared == pc = "compared" \/ (pc = "pair" /\ report # <<>>)
SameComparedFields ==
    /\ \A f \in {"Runtime", "Handler", "MemorySize", "Timeout"} : expected[f] = actual[f]
    /\ DOMAIN expected.Environment = DOMAIN actual.Environment
    /\ \A k \in DOMAIN expected.Environment : expected.Environment[k] = actual.Environment[k]
    /\ Range(expected.Layers) = Range(actual.Layers)

\* C21: with actual present, the difference list is empty iff expected and
\* actual have the same Runtime, Handler, MemorySize and Timeout, the same
\* environment keys with the same values and the same set of layers; so a
\* comparison is classified MATCH only when none of these differs
C21_EmptyIffComparedFieldsEqual ==
    (Compared /\ actual # None) =>
        /\ (result[1] = <<>>) <=> SameComparedFields
        /\ (Classify(result[1], result[2]) = "MATCH") <=> SameComparedFields

C21_Witness ==
    /\ pc = "compared"
    /\ actual # None
    /\ result[1] = <<>>
    /\ expected.Handler = None
    /\ DOMAIN expected.Environment = {"STAGE", "DEBUG"}
    /\ expected.Layers = <<Layer2>>

(***************************************************************************)
(* Resources that resolve to the same name (Spec)                          *)
(***************************************************************************)
NoRepeat(names) == \A i, j \in 1..Len(names) : names[i] = names[j] => i = j
Collision ==
    \E m, n \in FunctionResources : m < n /\ CanonicalName(m) = CanonicalName(n)

\* C22: get_lambda_functions keeps one entry per canonical name, and when two
\* function resources resolve to the same name the entry holds the later
\* resource's configuration: the name is fetched and classified once, against
\* that configuration
C22_LaterResourceWins ==
    report # <<>> =>
        LET order == ParserOrder
            name == report[Len(report)].name
        IN  /\ NoRepeat(order)
            /\ Range(order) = {CanonicalName(n) : n \in FunctionResources}
            /\ NoRepeat(ReportedNames)
            /\ NoRepeat(FetchedNames)
            /\ expected = FunctionConfig(PropertiesOf(LastNamed(name)))

C22_Witness ==
    /\ pc = "summary"
    /\ Collision
    /\ FunctionResources = {1, 2}
    /\ ReportedNames = <<"Res1">>
    /\ FetchedNames = <<"Res1">>
    /\ expected = FunctionConfig(PropertiesOf(2))
    /\ expected # FunctionConfig(PropertiesOf(1))
    /\ report[1].status = "DRIFTED"

====
